---- MODULE Spec2Model ----
(***************************************************************************)
(* The run registry of screenpro.assays.PooledScreens: the mapping         *)
(* phenotypes (run_name -> stored result), the list phenotype_names, the   *)
(* two scoring operations that write them and the retrieval that reads     *)
(* them.  The scoring core (runPhenoScore) and the annotator (ann_score_df)*)
(* live in other modules of the package and are modelled by their          *)
(* specified contract.                                                     *)
(***************************************************************************)
EXTENDS Integers, Sequences, FiniteSets, TLC

VARIABLES phenotypes, phenotype_names, cobj, registeredUnder, last, ncalls

vars == <<phenotypes, phenotype_names, cobj, registeredUnder, last, ncalls>>

(***************************************************************************)
(* Bounds and inputs                                                       *)
(***************************************************************************)
\* number of operations (scoring calls and retrievals) in one behaviour
MaxCalls == 2

\* PooledScreens.__init__: n_reps=3
n_reps == 3

\* Python's None, as passed for run_name
None == "<None>"

\* the sample metadata of adata: condition label -> number of replicate samples
adata == [c \in {"T0", "untreated", "treated", "pilot"} |->
             IF c = "pilot" THEN 2 ELSE 3]

\* condition labels the callers pass for each argument ("absent" is not in
\* adata, "pilot" has fewer than n_reps samples)
T0Args        == {"T0", "untreated"}
UntreatedArgs == {"untreated", "treated", "absent"}
TreatedArgs   == {"treated", "pilot"}
LowBinArgs    == {"untreated", "absent"}
HighBinArgs   == {"treated", "pilot"}

\* doubling rates the callers pass
DbUntreatedArgs == {1, 2}
DbTreatedArgs   == {2}

ScoreLevels == {"sgRNA"}

\* run_name arguments: not given (None), empty, or a name
RunNames == {None, "", "screen1"}

\* arguments of getPhenotypeScores
GetRunNames     == {"sgRNA", "screen1"}
UnregisteredScores == {"gamma"}
TargetCols      == {"target", "BH adj_pvalue"}
PvalueColumns   == {"ttest pvalue", "BH adj_pvalue"}
ScoreColumnArgs == {"score", "BH adj_pvalue"}

Range(s) == {s[i] : i \in 1..Len(s)}

Abs(x) == IF x < 0 THEN -x ELSE x

(***************************************************************************)
(* The scoring core, runPhenoScore                                         *)
(***************************************************************************)
\* the arguments of one core call; growth_rate is <<>> when not passed
CoreCall(cond1, cond2, growth_rate, score_level) ==
    [cond1 |-> cond1, cond2 |-> cond2, growth_rate |-> growth_rate,
     score_level |-> score_level]

\* the derived score name
ScoreName(cond1, cond2) == cond1 \o "_vs_" \o cond2

\* columns of a score table as the core returns it
ScoreColumns == <<"target", "score", "ttest pvalue", "BH adj_pvalue">>

\* a score table: determined by the core call that produced it; its scores
\* are the log-ratios divided by growth_rate, undefined when that is zero
ScoreTable(call) ==
    [of |-> call, index |-> "element", columns |-> ScoreColumns,
     defined |-> call.growth_rate # <<0>>]

runPhenoScore(call) ==
    IF call.cond1 \notin DOMAIN adata \/ call.cond2 \notin DOMAIN adata
    THEN [error |-> "MissingConditionError", name |-> "", table |-> <<>>]
    ELSE IF adata[call.cond1] < n_reps \/ adata[call.cond2] < n_reps
    THEN [error |-> "ReplicateMismatchError", name |-> "", table |-> <<>>]
    ELSE [error |-> "none", name |-> ScoreName(call.cond1, call.cond2),
          table |-> ScoreTable(call)]

(***************************************************************************)
(* The registry                                                            *)
(***************************************************************************)
\* f'{prefix}:{name}'
Label(prefix, name) == prefix \o ":" \o name

\* variant: the membership test is missing
_add_phenotype_results_nocheck(names, phenotype_name) ==
    [raised |-> FALSE, phenotype_names |-> Append(names, phenotype_name)]

\* variant: only the name registered last is tested
_add_phenotype_results_lastonly(names, phenotype_name) ==
    IF names # <<>> /\ phenotype_name = names[Len(names)]
    THEN [raised |-> TRUE, phenotype_names |-> names]
    ELSE [raised |-> FALSE, phenotype_names |-> Append(names, phenotype_name)]

\* variant: a new name is put at the front of the list
_add_phenotype_results_front(names, phenotype_name) ==
    IF phenotype_name \in Range(names)
    THEN [raised |-> TRUE, phenotype_names |-> names]
    ELSE [raised |-> FALSE, phenotype_names |-> <<phenotype_name>> \o names]

\* _add_phenotype_results: raises on a name already in the list, else appends
_add_phenotype_results(names, phenotype_name) ==
    IF phenotype_name \in Range(names)
    THEN [raised |-> TRUE, phenotype_names |-> names]
    ELSE [raised |-> FALSE, phenotype_names |-> Append(names, phenotype_name)]

\* the calls of _add_phenotype_results in order, stopping at the first raise
RECURSIVE AddAll(_, _)
AddAll(names, labels) ==
    IF labels = <<>> THEN [raised |-> FALSE, phenotype_names |-> names]
    ELSE LET r == _add_phenotype_results(names, Head(labels))
         IN  IF r.raised THEN r ELSE AddAll(r.phenotype_names, Tail(labels))

\* variant: only a run_name of None falls back to score_level
RunKey_noneonly(run_name, score_level) ==
    IF run_name = None THEN score_level ELSE run_name

\* if not run_name: run_name = score_level
RunKey(run_name, score_level) ==
    IF run_name = None \/ run_name = "" THEN score_level ELSE run_name

\* self.phenotypes[run_name] = result
Store(ph, key, result) ==
    [k \in (DOMAIN ph) \cup {key} |-> IF k = key THEN result ELSE ph[k]]

\* pd.concat({label: table, ...}, axis=1): the top-level column labels and
\* the table under each
Concat(labels, tables) ==
    [l \in Range(labels) |->
        tables[CHOOSE i \in 1..Len(labels) :
                  labels[i] = l /\ \A j \in (i+1)..Len(labels) : labels[j] # l]]

\* the ghost record of the run a name was registered under
Registered(reg, before, after, key) ==
    [l \in Range(after) |-> IF l \in Range(before) THEN reg[l] ELSE key]

\* core calls made one after the other; the first that fails ends the sequence
RECURSIVE CoreRun(_)
CoreRun(calls) ==
    IF calls = <<>> THEN <<>>
    ELSE LET r == runPhenoScore(Head(calls))
         IN  IF r.error # "none" THEN <<r>> ELSE <<r>> \o CoreRun(Tail(calls))

\* the error of the last core call made ("none" when every call returned)
CoreError(results) ==
    IF results = <<>> THEN "none" ELSE results[Len(results)].error

\* variant: rho's growth rate is the signed difference
DrugCoreCalls_signed(t0, untreated, treated, db_untreated, db_treated, score_level) ==
    << CoreCall(t0, untreated, <<db_untreated>>, score_level),
       CoreCall(t0, treated, <<db_treated>>, score_level),
       CoreCall(untreated, treated, <<db_untreated - db_treated>>,
                score_level) >>

\* the three core calls of calculateDrugScreen: gamma, tau, rho
DrugCoreCalls(t0, untreated, treated, db_untreated, db_treated, score_level) ==
    << CoreCall(t0, untreated, <<db_untreated>>, score_level),
       CoreCall(t0, treated, <<db_treated>>, score_level),
       CoreCall(untreated, treated, <<Abs(db_untreated - db_treated)>>,
                score_level) >>

\* the labels calculateDrugScreen builds from the names the core returned
DrugLabels(results) ==
    << Label("gamma", results[1].name), Label("tau", results[2].name),
       Label("rho", results[3].name) >>

\* variant: the bins are passed the other way round
FlowCoreCalls_swapped(low_bin, high_bin, score_level) ==
    << CoreCall(high_bin, low_bin, <<>>, score_level) >>

\* the one core call of calculateFlowBasedScreen: delta, no growth_rate
FlowCoreCalls(low_bin, high_bin, score_level) ==
    << CoreCall(low_bin, high_bin, <<>>, score_level) >>

FlowLabels(results) == << Label("delta", results[1].name) >>

\* the body of a scoring operation after its core calls: store the combined
\* result under the run key, then register the labels one by one
StoreAndRegister(ph, names, key, labels, results) ==
    LET stored == Store(ph, key,
                        Concat(labels, [i \in 1..Len(results) |-> results[i].table]))
        added  == AddAll(names, labels)
    IN  [phenotypes |-> stored,
         phenotype_names |-> added.phenotype_names,
         outcome |-> IF added.raised THEN "DuplicateScoreError" ELSE "ok"]

\* variant: the gamma name is registered as soon as its core call returns
DrugScreenResult_eager(ph, names, a) ==
    LET calls   == DrugCoreCalls(a.t0, a.untreated, a.treated, a.db_untreated,
                                 a.db_treated, a.score_level)
        results == CoreRun(calls)
    IN  IF CoreError(results) # "none"
        THEN [phenotypes |-> ph,
              phenotype_names |->
                  IF Len(results) > 1
                  THEN AddAll(names, <<Label("gamma", results[1].name)>>)
                           .phenotype_names
                  ELSE names,
              outcome |-> CoreError(results),
              calls |-> SubSeq(calls, 1, Len(results))]
        ELSE LET r == StoreAndRegister(ph, names,
                                       RunKey(a.run_name, a.score_level),
                                       DrugLabels(results), results)
             IN  [phenotypes |-> r.phenotypes,
                  phenotype_names |-> r.phenotype_names,
                  outcome |-> r.outcome, calls |-> calls]

\* calculateDrugScreen on registry (ph, names)
DrugScreenResult(ph, names, a) ==
    LET calls   == DrugCoreCalls(a.t0, a.untreated, a.treated, a.db_untreated,
                                 a.db_treated, a.score_level)
        results == CoreRun(calls)
    IN  IF CoreError(results) # "none"
        THEN [phenotypes |-> ph, phenotype_names |-> names,
              outcome |-> CoreError(results),
              calls |-> SubSeq(calls, 1, Len(results))]
        ELSE LET r == StoreAndRegister(ph, names,
                                       RunKey(a.run_name, a.score_level),
                                       DrugLabels(results), results)
             IN  [phenotypes |-> r.phenotypes,
                  phenotype_names |-> r.phenotype_names,
                  outcome |-> r.outcome, calls |-> calls]

\* calculateFlowBasedScreen on registry (ph, names)
FlowScreenResult(ph, names, a) ==
    LET calls   == FlowCoreCalls(a.low_bin, a.high_bin, a.score_level)
        results == CoreRun(calls)
    IN  IF CoreError(results) # "none"
        THEN [phenotypes |-> ph, phenotype_names |-> names,
              outcome |-> CoreError(results),
              calls |-> SubSeq(calls, 1, Len(results))]
        ELSE LET r == StoreAndRegister(ph, names,
                                       RunKey(a.run_name, a.score_level),
                                       FlowLabels(results), results)
             IN  [phenotypes |-> r.phenotypes,
                  phenotype_names |-> r.phenotype_names,
                  outcome |-> r.outcome, calls |-> calls]

(***************************************************************************)
(* Retrieval: getPhenotypeScores                                           *)
(***************************************************************************)
Failed(error) == [outcome |-> error, out |-> <<>>]

\* table.loc[:, keep_col]: the listed columns, in the listed order
Loc(table, keep_col) ==
    IF Range(keep_col) \subseteq Range(table.columns)
    THEN [outcome |-> "ok", out |-> [table EXCEPT !.columns = keep_col]]
    ELSE Failed("KeyError")

\* table.set_index(col): the column becomes the index and leaves the columns
SetIndex(table, col) ==
    IF col \in Range(table.columns)
    THEN [outcome |-> "ok",
          out |-> [table EXCEPT !.index = col,
                                !.columns = SelectSeq(table.columns,
                                                      LAMBDA c : c # col)]]
    ELSE Failed("KeyError")

\* table.rename(columns={old: new})
Rename(table, old, new) ==
    [table EXCEPT !.columns =
        [i \in 1..Len(table.columns) |->
            IF table.columns[i] = old THEN new ELSE table.columns[i]]]

\* the annotator: reads the score and pvalue columns of a target-indexed
\* table and adds the standardized score and the hit call
ann_score_df(table) ==
    IF {"score", "pvalue"} \subseteq Range(table.columns)
    THEN [outcome |-> "ok",
          out |-> [table EXCEPT !.columns = table.columns \o <<"zscore", "label">>]]
    ELSE Failed("KeyError")

\* the lookup and column chain of getPhenotypeScores up to the table handed
\* to the annotator
ScoreFrame(ph, names, run_name, score_name, target_col, pvalue_column, score_column) ==
    IF score_name \notin Range(names) THEN Failed("ScoreNotFoundError")
    ELSE IF run_name \notin DOMAIN ph THEN Failed("KeyError")
    ELSE IF score_name \notin DOMAIN ph[run_name] THEN Failed("KeyError")
    ELSE LET keep_col == <<target_col, pvalue_column, score_column>>
             kept     == Loc(ph[run_name][score_name], keep_col)
         IN  IF kept.outcome # "ok" THEN kept
             ELSE LET indexed == SetIndex(kept.out, "target")
                  IN  IF indexed.outcome # "ok" THEN indexed
                      ELSE [outcome |-> "ok",
                            out |-> Rename(indexed.out, pvalue_column, "pvalue")]

\* variant: the column chain works on the stored table in place
getPhenotypeScoresResult_inplace(ph, names, run_name, score_name, target_col, pvalue_column, score_column) ==
    LET f == ScoreFrame(ph, names, run_name, score_name, target_col,
                        pvalue_column, score_column)
        r == IF f.outcome # "ok" THEN f ELSE ann_score_df(f.out)
    IN  [outcome |-> r.outcome, out |-> r.out,
         phenotypes |-> IF f.outcome # "ok" THEN ph
                        ELSE [ph EXCEPT ![run_name][score_name] = f.out],
         phenotype_names |-> names]

\* getPhenotypeScores on registry (ph, names): the outcome, the table
\* returned and the registry afterwards (loc, set_index and rename each
\* return a new table, so the stored one is only read)
getPhenotypeScoresResult(ph, names, run_name, score_name, target_col, pvalue_column, score_column) ==
    LET f == ScoreFrame(ph, names, run_name, score_name, target_col,
                        pvalue_column, score_column)
        r == IF f.outcome # "ok" THEN f ELSE ann_score_df(f.out)
    IN  [outcome |-> r.outcome, out |-> r.out,
         phenotypes |-> ph, phenotype_names |-> names]

(***************************************************************************)
(* Objects.  phenotypes and phenotype_names are the dict and the list that *)
(* __init__ creates for the screen object s.  cobj is the object c that    *)
(* s.copy() returns: its two attributes refer to those same containers     *)
(* (shares), or to containers of its own, whose contents cobj then carries.*)
(***************************************************************************)
NoCopy ==
    [exists |-> FALSE, shares |-> FALSE, phenotypes |-> <<>>,
     phenotype_names |-> <<>>]

\* variant: copy.deepcopy, the new object gets containers of its own
CopyOf_deep(ph, names) ==
    [exists |-> TRUE, shares |-> FALSE, phenotypes |-> ph,
     phenotype_names |-> names]

\* copy.copy(self): a new object whose attributes are the same references
CopyOf(ph, names) ==
    [exists |-> TRUE, shares |-> TRUE, phenotypes |-> <<>>,
     phenotype_names |-> <<>>]

\* the objects a method can be called on
Receivers == IF cobj.exists THEN {"s", "c"} ELSE {"s"}

OwnContainers(self) == self = "c" /\ ~cobj.shares

\* self.phenotypes and self.phenotype_names as read through an object
Seen(self) ==
    IF OwnContainers(self)
    THEN [phenotypes |-> cobj.phenotypes, phenotype_names |-> cobj.phenotype_names]
    ELSE [phenotypes |-> phenotypes, phenotype_names |-> phenotype_names]

\* the containers self refers to take the contents r; key is the run key
\* of the call, for the record of where names were registered
Written(self, r, key) ==
    IF OwnContainers(self)
    THEN /\ cobj' = [cobj EXCEPT !.phenotypes = r.phenotypes,
                           !.phenotype_names = r.phenotype_names]
         /\ UNCHANGED <<phenotypes, phenotype_names, registeredUnder>>
    ELSE /\ phenotypes' = r.phenotypes
         /\ phenotype_names' = r.phenotype_names
         /\ registeredUnder' =
                Registered(registeredUnder, phenotype_names,
                           r.phenotype_names, key)
         /\ cobj' = cobj

(***************************************************************************)
(* State machine                                                           *)
(***************************************************************************)
Init ==
    /\ phenotypes = <<>>
    /\ phenotype_names = <<>>
    /\ cobj = NoCopy
    /\ registeredUnder = <<>>
    /\ last = [op |-> "init", self |-> "s", args |-> <<>>, outcome |-> "ok",
               calls |-> <<>>, out |-> <<>>]
    /\ ncalls = 0

calculateDrugScreen ==
    /\ ncalls < MaxCalls
    /\ \E self \in Receivers, t0 \in T0Args, untreated \in UntreatedArgs, treated \in TreatedArgs,
          db_untreated \in DbUntreatedArgs, db_treated \in DbTreatedArgs,
          score_level \in ScoreLevels, run_name \in RunNames :
          LET a == [t0 |-> t0, untreated |-> untreated, treated |-> treated,
                    db_untreated |-> db_untreated, db_treated |-> db_treated,
                    score_level |-> score_level, run_name |-> run_name]
              r == DrugScreenResult(Seen(self).phenotypes,
                                    Seen(self).phenotype_names, a)
          IN  /\ Written(self, r, RunKey(run_name, score_level))
              /\ last' = [op |-> "calculateDrugScreen", self |-> self,
                          args |-> a,
                          outcome |-> r.outcome, calls |-> r.calls,
                          out |-> <<>>]
    /\ ncalls' = ncalls + 1

calculateFlowBasedScreen ==
    /\ ncalls < MaxCalls
    /\ \E self \in Receivers, low_bin \in LowBinArgs, high_bin \in HighBinArgs,
          score_level \in ScoreLevels, run_name \in RunNames :
          LET a == [low_bin |-> low_bin, high_bin |-> high_bin,
                    score_level |-> score_level, run_name |-> run_name]
              r == FlowScreenResult(Seen(self).phenotypes,
                                    Seen(self).phenotype_names, a)
          IN  /\ Written(self, r, RunKey(run_name, score_level))
              /\ last' = [op |-> "calculateFlowBasedScreen", self |-> self,
                          args |-> a,
                          outcome |-> r.outcome, calls |-> r.calls,
                          out |-> <<>>]
    /\ ncalls' = ncalls + 1

getPhenotypeScores ==
    /\ ncalls < MaxCalls
    /\ \E self \in Receivers :
       \E run_name \in GetRunNames,
          score_name \in Range(Seen(self).phenotype_names)
                            \cup UnregisteredScores,
          target_col \in TargetCols, pvalue_column \in PvalueColumns,
          score_column \in ScoreColumnArgs :
          LET a == [run_name |-> run_name, score_name |-> score_name,
                    target_col |-> target_col,
                    pvalue_column |-> pvalue_column,
                    score_column |-> score_column]
              r == getPhenotypeScoresResult(Seen(self).phenotypes,
                       Seen(self).phenotype_names, run_name, score_name,
                       target_col, pvalue_column, score_column)
          IN  /\ Written(self, r, run_name)
              /\ last' = [op |-> "getPhenotypeScores", self |-> self,
                          args |-> a, outcome |-> r.outcome,
                          calls |-> <<>>, out |-> r.out]
    /\ ncalls' = ncalls + 1

Next ==
    \/ calculateDrugScreen
    \/ calculateFlowBasedScreen
    \/ getPhenotypeScores

Spec == Init /\ [][Next]_vars

\* c = s.copy(): one copy is taken, at any point of the run
copy ==
    /\ ~cobj.exists
    /\ cobj' = CopyOf(phenotypes, phenotype_names)
    /\ last' = [op |-> "copy", self |-> "s", args |-> <<>>, outcome |-> "ok",
                calls |-> <<>>, out |-> <<>>]
    /\ UNCHANGED <<phenotypes, phenotype_names, registeredUnder, ncalls>>

NextCopy ==
    \/ copy
    \/ calculateDrugScreen
    \/ calculateFlowBasedScreen

\* the screen object together with a copy of it, under the operations that
\* write the registry
SpecCopy == Init /\ [][NextCopy]_vars

(***************************************************************************)
(* Properties                                                              *)
(***************************************************************************)
ScoringOps == {"calculateDrugScreen", "calculateFlowBasedScreen"}

NameSet == Range(phenotype_names)

\* the score names a scoring call with arguments a derives, when all its
\* core calls return
DrugNamesOf(a) ==
    { Label("gamma", ScoreName(a.t0, a.untreated)),
      Label("tau", ScoreName(a.t0, a.treated)),
      Label("rho", ScoreName(a.untreated, a.treated)) }

FlowNamesOf(a) == { Label("delta", ScoreName(a.low_bin, a.high_bin)) }

\* every condition a scoring call names has enough samples in adata
CoreReturns(op, a) ==
    LET conds == IF op = "calculateDrugScreen"
                 THEN {a.t0, a.untreated, a.treated}
                 ELSE {a.low_bin, a.high_bin}
    IN  \A c \in conds : c \in DOMAIN adata /\ adata[c] >= n_reps

NamesOf(op, a) ==
    IF op = "calculateDrugScreen" THEN DrugNamesOf(a) ELSE FlowNamesOf(a)

\* C1: every calculateDrugScreen call is all-or-nothing on score names:
\* either it succeeds and its gamma, tau and rho names are all registered
\* afterwards, or it fails and phenotype_names is what it was before.
C1_AllOrNothing ==
    [][ last'.op = "calculateDrugScreen" =>
          \/ /\ last'.outcome = "ok"
             /\ DrugNamesOf(last'.args) \subseteq Range(phenotype_names')
          \/ /\ last'.outcome # "ok"
             /\ phenotype_names' = phenotype_names ]_vars

\* C2: a scoring call one of whose score names is already in phenotype_names
\* fails with the duplicate-score error, whatever run_name it is given.
C2_DuplicateAlwaysFails ==
    [][ ( /\ last'.op \in ScoringOps
          /\ CoreReturns(last'.op, last'.args)
          /\ NamesOf(last'.op, last'.args) \cap NameSet # {} )
        => last'.outcome = "DuplicateScoreError" ]_vars

\* C2 witness: a flow call was rejected as a duplicate although it named a
\* run other than the one its score name was registered under.
C2_Witness ==
    /\ last.op = "calculateFlowBasedScreen"
    /\ last.outcome = "DuplicateScoreError"
    /\ \E l \in FlowNamesOf(last.args) :
          /\ l \in NameSet
          /\ registeredUnder[l] # RunKey(last.args.run_name,
                                         last.args.score_level)

\* C3: a scoring call that fails with the duplicate-score error leaves the
\* phenotypes mapping identical.
C3_FailedCallKeepsPhenotypes ==
    [][ (last'.op \in ScoringOps /\ last'.outcome = "DuplicateScoreError")
        => phenotypes' = phenotypes ]_vars

\* C4: every registered score name can be retrieved under the run it was
\* registered under, and every unregistered one fails with the
\* score-not-found error.
C4_RegisteredIsRetrievable ==
    /\ \A s \in NameSet :
          getPhenotypeScoresResult(phenotypes, phenotype_names,
              registeredUnder[s], s, "target", "ttest pvalue",
              "score").outcome = "ok"
    /\ \A s \in UnregisteredScores \ NameSet, run \in GetRunNames :
          getPhenotypeScoresResult(phenotypes, phenotype_names, run, s,
              "target", "ttest pvalue", "score").outcome
              = "ScoreNotFoundError"

\* C5: a result stored under a run_name is never removed nor replaced by a
\* different result.
C5_StoredResultsAppendOnly ==
    [][ \A k \in DOMAIN phenotypes :
          k \in DOMAIN phenotypes' /\ phenotypes'[k] = phenotypes[k] ]_vars

\* C6: phenotype_names never holds a score name twice.
C6_NoDuplicateNames ==
    \A i, j \in 1..Len(phenotype_names) :
        phenotype_names[i] = phenotype_names[j] => i = j

\* C6 witness: a call was rejected as a duplicate after it had already
\* registered one of its own names.
C6_Witness ==
    /\ last.op = "calculateDrugScreen"
    /\ last.outcome = "DuplicateScoreError"
    /\ Len(phenotype_names) > 3

\* C7: calculateDrugScreen with equal doubling rates never passes growth
\* rate 0 to the core and then completes as an ordinary scoring call.
C7_ZeroDivisorGuarded ==
    ( /\ last.op = "calculateDrugScreen"
      /\ last.args.db_untreated = last.args.db_treated )
    => ~ ( /\ \E i \in 1..Len(last.calls) : last.calls[i].growth_rate = <<0>>
           /\ last.outcome = "ok"
           /\ Label("rho", ScoreName(last.args.untreated, last.args.treated))
                 \in NameSet )

\* C8: getPhenotypeScores, returning or failing, leaves phenotypes and
\* phenotype_names as they were.
C8_RetrievalReadsOnly ==
    [][ last'.op = "getPhenotypeScores" =>
          /\ phenotypes' = phenotypes
          /\ phenotype_names' = phenotype_names ]_vars

\* C8 witness: a retrieval has returned a table.
C8_Witness ==
    /\ last.op = "getPhenotypeScores"
    /\ last.outcome = "ok"
    /\ last.out.index = "target"

\* C9: a successful calculateDrugScreen makes exactly the gamma, tau and rho
\* core calls with the stated arguments, stores a result with exactly the
\* three labels, and adds exactly those three labels to phenotype_names.
C9_DrugScreenCalls ==
    [][ (last'.op = "calculateDrugScreen" /\ last'.outcome = "ok") =>
          LET a   == last'.args
              d   == IF a.db_untreated >= a.db_treated
                     THEN a.db_untreated - a.db_treated
                     ELSE a.db_treated - a.db_untreated
              lab == DrugNamesOf(a)
          IN  /\ last'.calls =
                   << [cond1 |-> a.t0, cond2 |-> a.untreated,
                       growth_rate |-> <<a.db_untreated>>,
                       score_level |-> a.score_level],
                      [cond1 |-> a.t0, cond2 |-> a.treated,
                       growth_rate |-> <<a.db_treated>>,
                       score_level |-> a.score_level],
                      [cond1 |-> a.untreated, cond2 |-> a.treated,
                       growth_rate |-> <<d>>,
                       score_level |-> a.score_level] >>
              /\ DOMAIN phenotypes'[RunKey(a.run_name, a.score_level)] = lab
              /\ \A l \in lab :
                    phenotypes'[RunKey(a.run_name, a.score_level)][l].of
                       \in Range(last'.calls)
              /\ Cardinality(lab) = 3
              /\ Range(phenotype_names') = NameSet \cup lab
              /\ Len(phenotype_names') = Len(phenotype_names) + 3 ]_vars

\* C9 witness: a drug screen with db_untreated below db_treated succeeded.
C9_Witness ==
    /\ last.op = "calculateDrugScreen"
    /\ last.outcome = "ok"
    /\ last.args.db_untreated < last.args.db_treated

\* C10: a successful calculateFlowBasedScreen makes exactly one core call,
\* (low_bin, high_bin) without growth rate, stores a result with exactly the
\* delta label, and adds exactly that label to phenotype_names.
C10_FlowScreenCalls ==
    [][ (last'.op = "calculateFlowBasedScreen" /\ last'.outcome = "ok") =>
          LET a   == last'.args
              lab == Label("delta", ScoreName(a.low_bin, a.high_bin))
              key == RunKey(a.run_name, a.score_level)
          IN  /\ last'.calls =
                   << [cond1 |-> a.low_bin, cond2 |-> a.high_bin,
                       growth_rate |-> <<>>,
                       score_level |-> a.score_level] >>
              /\ DOMAIN phenotypes'[key] = {lab}
              /\ phenotypes'[key][lab].of = last'.calls[1]
              /\ phenotype_names' = Append(phenotype_names, lab) ]_vars

\* C10 witness: a flow screen succeeded.
C10_Witness ==
    /\ last.op = "calculateFlowBasedScreen"
    /\ last.outcome = "ok"
    /\ Len(last.calls) = 1

\* the keys of phenotypes other than key are the same and hold the same
\* results before and after the step
OnlyKeyWritten(key) ==
    /\ DOMAIN phenotypes' = (DOMAIN phenotypes) \cup {key}
    /\ \A k \in (DOMAIN phenotypes) \ {key} : phenotypes'[k] = phenotypes[k]

\* C11 as stated: a scoring call that reaches the store writes its result
\* under run_name whenever a run_name was passed, under score_level when
\* none was passed, and writes no other key.
C11_KeyIsRunNameWhenSupplied ==
    [][ (last'.op \in ScoringOps /\ CoreReturns(last'.op, last'.args)) =>
          LET a   == last'.args
              key == IF a.run_name = None THEN a.score_level ELSE a.run_name
          IN  /\ OnlyKeyWritten(key)
              /\ DOMAIN phenotypes'[key] = NamesOf(last'.op, a) ]_vars

\* C11 amended: the result is stored under run_name whenever run_name is a
\* non-empty string, under score_level when run_name is None or the empty
\* string, and no other key is written.
C11_KeyIsRunNameWhenNonEmpty ==
    [][ (last'.op \in ScoringOps /\ CoreReturns(last'.op, last'.args)) =>
          LET a   == last'.args
              key == IF a.run_name \in {None, ""} THEN a.score_level
                     ELSE a.run_name
          IN  /\ OnlyKeyWritten(key)
              /\ DOMAIN phenotypes'[key] = NamesOf(last'.op, a) ]_vars

\* C11 witness: a scoring call given the empty run_name stored its result
\* under its score_level, next to a result stored under a given run_name.
C11_Witness ==
    /\ last.op \in ScoringOps
    /\ last.args.run_name = ""
    /\ CoreReturns(last.op, last.args)
    /\ DOMAIN phenotypes = {last.args.score_level, "screen1"}
    /\ DOMAIN phenotypes[last.args.score_level] = NamesOf(last.op, last.args)

\* C12: phenotype_names only grows: every step leaves the old list as a
\* prefix of the new one, and only the two scoring operations extend it.
C12_NamesOnlyGrow ==
    [][ /\ Len(phenotype_names') >= Len(phenotype_names)
        /\ SubSeq(phenotype_names', 1, Len(phenotype_names)) = phenotype_names
        /\ (phenotype_names' # phenotype_names => last'.op \in ScoringOps)
      ]_vars

\* C12 witness: a second scoring call has extended a non-empty list.
C12_Witness ==
    /\ last.op \in ScoringOps
    /\ last.outcome = "ok"
    /\ Len(phenotype_names) > Cardinality(NamesOf(last.op, last.args))

\* C13: a scoring call one of whose core calls fails ends in that error and
\* leaves phenotypes and phenotype_names exactly as they were.
C13_CoreFailureKeepsRegistry ==
    [][ (last'.op \in ScoringOps /\ ~CoreReturns(last'.op, last'.args)) =>
          /\ last'.outcome \in {"MissingConditionError",
                                "ReplicateMismatchError"}
          /\ phenotypes' = phenotypes
          /\ phenotype_names' = phenotype_names ]_vars

\* C13 witness: the tau call of a drug screen failed after its gamma call
\* had returned, on a registry that already held results.
C13_Witness ==
    /\ last.op = "calculateDrugScreen"
    /\ last.outcome = "ReplicateMismatchError"
    /\ Len(last.calls) = 2
    /\ phenotype_names # <<>>

\* C14: when the column overrides name three different columns of the
\* stored score table, the table handed to the annotator is indexed by the
\* column target_col names and its columns are exactly pvalue and score.
C14_ColumnOverridesHonoured ==
    LET a == last.args
    IN  ( /\ last.op = "getPhenotypeScores"
          /\ a.score_name \in NameSet
          /\ a.run_name \in DOMAIN phenotypes
          /\ a.score_name \in DOMAIN phenotypes[a.run_name]
          /\ {a.target_col, a.pvalue_column, a.score_column}
                \subseteq Range(phenotypes[a.run_name][a.score_name].columns)
          /\ Cardinality({a.target_col, a.pvalue_column, a.score_column}) = 3 )
        => LET f == ScoreFrame(phenotypes, phenotype_names, a.run_name,
                               a.score_name, a.target_col, a.pvalue_column,
                               a.score_column)
           IN  /\ f.outcome = "ok"
               /\ f.out.index = a.target_col
               /\ Len(f.out.columns) = 2
               /\ Range(f.out.columns) = {"pvalue", "score"}

\* C15: every score label of every result stored in phenotypes is in
\* phenotype_names.
C15_StoredLabelsRegistered ==
    \A k \in DOMAIN phenotypes : DOMAIN phenotypes[k] \subseteq NameSet

\* C16: once c = s.copy() exists, every scoring call through either object
\* leaves both objects seeing the same phenotypes and phenotype_names, a
\* call through c that succeeds has its names in the list seen through s,
\* and a call through one object is rejected as a duplicate when one of its
\* names was already in the list seen through the other.
C16_CopySharesRegistry ==
    [][ (cobj.exists /\ last'.op \in ScoringOps) =>
          LET otherBefore == IF last'.self = "s"
                             THEN Seen("c").phenotype_names
                             ELSE Seen("s").phenotype_names
              otherAfter  == IF last'.self = "s"
                             THEN Seen("c").phenotype_names'
                             ELSE Seen("s").phenotype_names'
          IN  /\ Seen("c")' = Seen("s")'
              /\ (last'.outcome = "ok" =>
                    NamesOf(last'.op, last'.args) \subseteq Range(otherAfter))
              /\ ( ( /\ CoreReturns(last'.op, last'.args)
                     /\ NamesOf(last'.op, last'.args)
                           \cap Range(otherBefore) # {} )
                   => last'.outcome = "DuplicateScoreError" ) ]_vars

\* C16 witness: a scoring call through the copy was rejected as a duplicate
\* of a name that is in the list of s, and the copy was taken when that list
\* was still empty or later.
C16_Witness ==
    /\ cobj.exists
    /\ last.op \in ScoringOps
    /\ last.self = "c"
    /\ last.outcome = "DuplicateScoreError"
    /\ NamesOf(last.op, last.args) \cap Range(phenotype_names) # {}

====
